---- MODULE Spec2Model ----
(***************************************************************************)
(* Model of crates/build.rs, the build script of rust-gnark: resolution of *)
(* the Go cross-compilation recipe from the Rust TARGET triple, synthesis  *)
(* of the xcrun wrapper scripts, the prebuilt fast path, the go build and  *)
(* bindgen steps and the emission of cargo link directives.                *)
(*                                                                         *)
(* Strings are TLA+ strings (sequences of characters): Len, \o and SubSeq  *)
(* act on them as on any sequence, so str::contains, str::starts_with,     *)
(* str::split and str::split_once are computed character by character.     *)
(***************************************************************************)
EXTENDS Integers, Sequences, FiniteSets, TLC

\* Longest RUST_GNARK_GO_ENVS string that is enumerated.
MaxOverrideLen == 4

\* Characters RUST_GNARK_GO_ENVS strings are built from: the two delimiters
\* of parse_go_envs and an ordinary character.
OverrideAlphabet == {"K", "=", ";"}

\* Option<T>
None == [some |-> FALSE]
Some(x) == [some |-> TRUE, v |-> x]

(***************************************************************************)
(* str methods of the Rust standard library that build.rs calls            *)
(***************************************************************************)

\* str::contains(&str)
contains(s, pat) ==
    \E i \in 1..(Len(s) + 1) :
        /\ i + Len(pat) - 1 <= Len(s)
        /\ SubSeq(s, i, i + Len(pat) - 1) = pat

\* str::starts_with(&str)
starts_with(s, pat) ==
    /\ Len(pat) <= Len(s)
    /\ SubSeq(s, 1, Len(pat)) = pat

\* str::find(char): index of the first occurrence, 0 when there is none
find(s, c) ==
    LET hits == {i \in 1..Len(s) : SubSeq(s, i, i) = c}
    IN  IF hits = {} THEN 0
        ELSE CHOOSE i \in hits : \A j \in hits : i <= j

\* str::split(char), collected: the segments between the separators, in order
RECURSIVE split(_, _)
split(s, sep) ==
    LET i == find(s, sep)
    IN  IF i = 0 THEN <<s>>
        ELSE <<SubSeq(s, 1, i - 1)>> \o split(SubSeq(s, i + 1, Len(s)), sep)

\* Variant of split_once that splits around the last separator, as
\* str::rsplit_once does; C2 tells the two apart.
split_once_last(s, sep) ==
    LET hits == {i \in 1..Len(s) : SubSeq(s, i, i) = sep}
        i    == IF hits = {} THEN 0 ELSE CHOOSE k \in hits : \A j \in hits : j <= k
    IN  IF i = 0 THEN None
        ELSE Some(<<SubSeq(s, 1, i - 1), SubSeq(s, i + 1, Len(s))>>)

\* str::split_once(char): Some((before, after)) around the first separator
split_once(s, sep) ==
    LET i == find(s, sep)
    IN  IF i = 0 THEN None
        ELSE Some(<<SubSeq(s, 1, i - 1), SubSeq(s, i + 1, Len(s))>>)

(***************************************************************************)
(* parse_go_envs                                                           *)
(***************************************************************************)

\* the closure of filter_map: pair.split_once('=') mapped to (key, value)
RECURSIVE filter_map_pairs(_)
filter_map_pairs(pairs) ==
    IF pairs = <<>> THEN <<>>
    ELSE LET kv == split_once(Head(pairs), "=")
         IN  (IF kv.some THEN <<kv.v>> ELSE <<>>) \o filter_map_pairs(Tail(pairs))

\* parse_go_envs, of the value of RUST_GNARK_GO_ENVS ("" when unset)
parse_go_envs(envs_str) ==
    IF envs_str = "" THEN <<>>
    ELSE filter_map_pairs(split(envs_str, ";"))

(***************************************************************************)
(* main: build mode and artifact name (lines 28-33)                        *)
(***************************************************************************)

is_android(target) == contains(target, "linux-android")

buildmode(target) == IF is_android(target) THEN "c-shared" ELSE "c-archive"

lib_name(target) == IF is_android(target) THEN "libgnark.so" ELSE "libgnark.a"

\* the cargo directive naming how libgnark is linked (lines 97-101)
link_lib_gnark(target) ==
    IF is_android(target) THEN "cargo:rustc-link-lib=dylib=gnark"
    ELSE "cargo:rustc-link-lib=static=gnark"

(***************************************************************************)
(* detect_go_cross_env: the TARGET -> (GOOS, GOARCH) match (lines 121-156) *)
(***************************************************************************)

\* the arch every arm of the match computes
go_arch(t) == IF starts_with(t, "aarch64") THEN "arm64" ELSE "amd64"

\* Variant of go_os_arch with the apple-darwin arm tried before the
\* apple-ios arm; C4 tells the two apart.
go_os_arch_darwin_first(target) ==
    IF contains(target, "apple-darwin") THEN Some(<<"darwin", go_arch(target)>>)
    ELSE IF contains(target, "apple-ios") THEN Some(<<"ios", go_arch(target)>>)
    ELSE IF contains(target, "linux-android") THEN Some(<<"android", go_arch(target)>>)
    ELSE IF contains(target, "linux-gnu") THEN Some(<<"linux", go_arch(target)>>)
    ELSE None

\* Some((goos, goarch)), or None for the `_ => return Vec::new()` arm
go_os_arch(target) ==
    IF contains(target, "apple-ios") THEN Some(<<"ios", go_arch(target)>>)
    ELSE IF contains(target, "apple-darwin") THEN Some(<<"darwin", go_arch(target)>>)
    ELSE IF contains(target, "linux-android") THEN Some(<<"android", go_arch(target)>>)
    ELSE IF contains(target, "linux-gnu") THEN Some(<<"linux", go_arch(target)>>)
    ELSE None

(***************************************************************************)
(* The process environment a build reads, and what it read of it           *)
(***************************************************************************)

\* What a build has read of its environment: None while unread, Some(value)
\* once read. home, root and host are env::var results (None: unset),
\* macos is cfg!(target_os = "macos"), exists is the Path::exists probe of
\* the NDK compiler; prebuilt_dir, go_dir, prebuilt_lib and prebuilt_header
\* are the Path::exists probes of main.
NoReads ==
    [home |-> None, root |-> None, host |-> None, macos |-> None, exists |-> None,
     prebuilt_dir |-> None, go_dir |-> None, prebuilt_lib |-> None,
     prebuilt_header |-> None]

\* cfg!(target_os = "macos") selects the NDK's prebuilt directory (lines 260-264)
host_tag(macos) == IF macos THEN "darwin-x86_64" ELSE "linux-x86_64"

\* the format! of line 272
ndk_clang_path(ndk, tag, clang_name) ==
    ndk \o "/toolchains/llvm/prebuilt/" \o tag \o "/bin/" \o clang_name

\* the cargo:warning of lines 277-280
ndk_warning(cc) ==
    "cargo:warning=Android NDK clang not found at " \o cc
        \o ". Cross-compilation may fail. Set ANDROID_NDK_HOME correctly."

\* Variant of detect_android_cc that also warns when neither NDK variable
\* is set; C7 tells the two apart.
detect_android_cc_warns_unset(target, e) ==
    LET r1  == [NoReads EXCEPT !.home = Some(e.home)]
        r2  == IF e.home.some THEN r1 ELSE [r1 EXCEPT !.root = Some(e.root)]
        ndk == IF e.home.some THEN e.home ELSE e.root
        r3  == [r2 EXCEPT !.macos = Some(e.macos)]
        clang_name ==
            IF target = "aarch64-linux-android" THEN Some("aarch64-linux-android21-clang")
            ELSE IF target = "x86_64-linux-android" THEN Some("x86_64-linux-android21-clang")
            ELSE None
    IN  IF ~ndk.some
            THEN [cc |-> None, warnings |-> <<ndk_warning("$ANDROID_NDK_HOME")>>, reads |-> r2]
        ELSE IF ~clang_name.some THEN [cc |-> None, warnings |-> <<>>, reads |-> r3]
        ELSE LET cc    == ndk_clang_path(ndk.v, host_tag(e.macos), clang_name.v)
                 found == cc \in e.files
                 r4 == [r3 EXCEPT !.exists = Some(found)]
             IN  IF found THEN [cc |-> Some(cc), warnings |-> <<>>, reads |-> r4]
                 ELSE [cc |-> None, warnings |-> <<ndk_warning(cc)>>, reads |-> r4]

(***************************************************************************)
(* detect_android_cc (lines 253-283). e is the process environment. The    *)
(* result carries the returned Option, the warnings printed and the reads. *)
(***************************************************************************)

detect_android_cc(target, e) ==
    LET r1  == [NoReads EXCEPT !.home = Some(e.home)]
        r2  == IF e.home.some THEN r1 ELSE [r1 EXCEPT !.root = Some(e.root)]
        ndk == IF e.home.some THEN e.home ELSE e.root
        r3  == [r2 EXCEPT !.macos = Some(e.macos)]
        clang_name ==
            IF target = "aarch64-linux-android" THEN Some("aarch64-linux-android21-clang")
            ELSE IF target = "x86_64-linux-android" THEN Some("x86_64-linux-android21-clang")
            ELSE None
    IN  IF ~ndk.some THEN [cc |-> None, warnings |-> <<>>, reads |-> r2]
        ELSE IF ~clang_name.some THEN [cc |-> None, warnings |-> <<>>, reads |-> r3]
        ELSE LET cc    == ndk_clang_path(ndk.v, host_tag(e.macos), clang_name.v)
                 found == cc \in e.files
                 r4 == [r3 EXCEPT !.exists = Some(found)]
             IN  IF found THEN [cc |-> Some(cc), warnings |-> <<>>, reads |-> r4]
                 ELSE [cc |-> None, warnings |-> <<ndk_warning(cc)>>, reads |-> r4]

(***************************************************************************)
(* create_apple_cc_wrapper (lines 225-247): names and contents             *)
(***************************************************************************)

script_name(sdk) == "cc_wrapper_" \o sdk \o ".sh"

script_path(out_dir, sdk) == out_dir \o "/" \o script_name(sdk)

script_content(sdk, clang_target) ==
    "#!/bin/sh\nexec xcrun -sdk " \o sdk \o " clang -target " \o clang_target \o " \"$@\"\n"

(***************************************************************************)
(* detect_cc (lines 175-209). The three iOS arms call                      *)
(* create_apple_cc_wrapper, whose file system steps are actions of their   *)
(* own: for them the result names the wrapper still to be written.         *)
(***************************************************************************)

Wrapper(sdk, clang_target) ==
    [wrapper |-> Some([sdk |-> sdk, clang_target |-> clang_target]),
     cc |-> None, warnings |-> <<>>, reads |-> NoReads]

\* Variant of detect_cc whose cross-compiler arm takes every linux-gnu
\* target, so that HOST decides the compiler of x86_64 targets too; C9 tells
\* the two apart.
detect_cc_any_linux_gnu(target, e) ==
    IF target = "aarch64-apple-ios" THEN Wrapper("iphoneos", "arm64-apple-ios13.0")
    ELSE IF target = "aarch64-apple-ios-sim"
        THEN Wrapper("iphonesimulator", "arm64-apple-ios13.0-simulator")
    ELSE IF target = "x86_64-apple-ios"
        THEN Wrapper("iphonesimulator", "x86_64-apple-ios13.0-simulator")
    ELSE IF contains(target, "linux-android")
        THEN LET a == detect_android_cc(target, e)
             IN  [wrapper |-> None, cc |-> a.cc, warnings |-> a.warnings, reads |-> a.reads]
    ELSE IF contains(target, "linux-gnu")
        THEN LET host == IF e.host.some THEN e.host.v ELSE ""
             IN  [wrapper |-> None,
                  cc |-> IF contains(host, "x86_64") THEN Some("aarch64-linux-gnu-gcc") ELSE None,
                  warnings |-> <<>>,
                  reads |-> [NoReads EXCEPT !.host = Some(e.host)]]
    ELSE [wrapper |-> None, cc |-> None, warnings |-> <<>>, reads |-> NoReads]

detect_cc(target, e) ==
    IF target = "aarch64-apple-ios" THEN Wrapper("iphoneos", "arm64-apple-ios13.0")
    ELSE IF target = "aarch64-apple-ios-sim"
        THEN Wrapper("iphonesimulator", "arm64-apple-ios13.0-simulator")
    ELSE IF target = "x86_64-apple-ios"
        THEN Wrapper("iphonesimulator", "x86_64-apple-ios13.0-simulator")
    ELSE IF contains(target, "linux-android")
        THEN LET a == detect_android_cc(target, e)
             IN  [wrapper |-> None, cc |-> a.cc, warnings |-> a.warnings, reads |-> a.reads]
    ELSE IF target = "aarch64-unknown-linux-gnu"
        THEN LET host == IF e.host.some THEN e.host.v ELSE ""
             IN  [wrapper |-> None,
                  cc |-> IF contains(host, "x86_64") THEN Some("aarch64-linux-gnu-gcc") ELSE None,
                  warnings |-> <<>>,
                  reads |-> [NoReads EXCEPT !.host = Some(e.host)]]
    ELSE [wrapper |-> None, cc |-> None, warnings |-> <<>>, reads |-> NoReads]

(***************************************************************************)
(* link_platform_deps (lines 305-318): the directives printed              *)
(***************************************************************************)

\* Variant of link_platform_deps keyed off the family the TARGET match of
\* detect_go_cross_env assigns; C6 tells the two apart.
link_platform_deps_by_family(target) ==
    IF go_os_arch(target).some /\ go_os_arch(target).v[1] \in {"ios", "darwin"}
        THEN <<"cargo:rustc-link-lib=framework=CoreFoundation",
               "cargo:rustc-link-lib=framework=Security",
               "cargo:rustc-link-lib=resolv">>
    ELSE IF go_os_arch(target).some /\ go_os_arch(target).v[1] = "android"
        THEN <<"cargo:rustc-link-lib=c", "cargo:rustc-link-lib=log">>
    ELSE <<"cargo:rustc-link-lib=pthread", "cargo:rustc-link-lib=resolv">>

link_platform_deps(target) ==
    IF contains(target, "apple")
        THEN <<"cargo:rustc-link-lib=framework=CoreFoundation",
               "cargo:rustc-link-lib=framework=Security",
               "cargo:rustc-link-lib=resolv">>
    ELSE IF contains(target, "android")
        THEN <<"cargo:rustc-link-lib=c", "cargo:rustc-link-lib=log">>
    ELSE <<"cargo:rustc-link-lib=pthread", "cargo:rustc-link-lib=resolv">>

(***************************************************************************)
(* detect_go_cross_env (lines 115-168)                                     *)
(***************************************************************************)

\* Variant of detect_go_cross_env_match that matches TARGET first and falls
\* back to the override for targets of no family; C1 tells the two apart.
detect_go_cross_env_match_auto_first(target, envs_str) ==
    LET manual == parse_go_envs(envs_str)
        oa     == go_os_arch(target)
    IN  IF oa.some
            THEN [manual |-> manual, consulted |-> TRUE, returned |-> None, oa |-> oa]
        ELSE [manual |-> manual, consulted |-> TRUE, returned |-> Some(manual), oa |-> None]

\* lines 116-156, before anything of the process environment but
\* RUST_GNARK_GO_ENVS is read: the override is parsed and, when it is empty,
\* TARGET is matched. returned is Some(vector) when the function returns
\* here; consulted tells whether the match ran; oa is its (GOOS, GOARCH).
detect_go_cross_env_match(target, envs_str) ==
    LET manual == parse_go_envs(envs_str)
        oa     == go_os_arch(target)
    IN  IF manual # <<>>
            THEN [manual |-> manual, consulted |-> FALSE, returned |-> Some(manual), oa |-> None]
        ELSE IF ~oa.some
            THEN [manual |-> manual, consulted |-> TRUE, returned |-> Some(<<>>), oa |-> None]
        ELSE [manual |-> manual, consulted |-> TRUE, returned |-> None, oa |-> oa]

\* Variant of go_envs that sets CC always, to "" when detect_cc returned
\* None; C5 tells the two apart.
go_envs_always_cc(oa, cc) ==
    <<<<"GOOS", oa[1]>>, <<"GOARCH", oa[2]>>, <<"CC", IF cc.some THEN cc.v ELSE "">>>>

\* lines 158-167: GOOS, GOARCH, then CC when detect_cc returned Some
go_envs(oa, cc) ==
    <<<<"GOOS", oa[1]>>, <<"GOARCH", oa[2]>>>>
        \o (IF cc.some THEN <<<<"CC", cc.v>>>> ELSE <<>>)

(***************************************************************************)
(* Inputs                                                                  *)
(***************************************************************************)

\* OUT_DIR, the scratch directory of the builds
OUT_DIR == "/out"

\* Values of TARGET: the triples build.rs names, triples of the same
\* families it does not name, triples of no family, and identifiers that
\* hold the marker of more than one family.
Targets ==
    {"aarch64-apple-ios", "aarch64-apple-ios-sim", "x86_64-apple-ios",
     "aarch64-apple-darwin", "x86_64-apple-darwin",
     "aarch64-linux-android", "x86_64-linux-android", "armv7-linux-androideabi",
     "aarch64-unknown-linux-gnu", "x86_64-unknown-linux-gnu",
     "x86_64-unknown-linux-musl", "aarch64-apple-tvos", "x86_64-pc-windows-msvc",
     "aarch64-apple-darwin-apple-ios", "x86_64-linux-gnu-linux-android",
     "aarch64-apple-ios-linux-android"}

\* Values of RUST_GNARK_GO_ENVS: every string of at most MaxOverrideLen
\* characters of OverrideAlphabet ("" also stands for the unset variable).
RECURSIVE StringsOfLen(_)
StringsOfLen(n) ==
    IF n = 0 THEN {""}
    ELSE {s \o c : s \in StringsOfLen(n - 1), c \in OverrideAlphabet}

Overrides == UNION {StringsOfLen(n) : n \in 0..MaxOverrideLen}

NdkClangNames == {"aarch64-linux-android21-clang", "x86_64-linux-android21-clang"}

\* The NDK compilers on disk: none, or one of the files a build may look for
NdkFileSets ==
    {{}} \cup {{ndk_clang_path(n, host_tag(m), c)} :
                  n \in {"/ndkA", "/ndkB"}, m \in BOOLEAN, c \in NdkClangNames}

\* Process environments: ANDROID_NDK_HOME, ANDROID_NDK_ROOT, HOST, the OS the
\* build script was compiled for, and the NDK files on disk
Envs ==
    {e \in [home : {None, Some("/ndkA")}, root : {None, Some("/ndkB")},
            host : {None, Some("x86_64-unknown-linux-gnu"), Some("aarch64-unknown-linux-gnu"),
                    Some("x86_64-apple-darwin"), Some("aarch64-apple-darwin")},
            macos : BOOLEAN, files : NdkFileSets] :
        e.host.some => (e.macos <=> contains(e.host.v, "apple-darwin"))}

(***************************************************************************)
(* State                                                                   *)
(***************************************************************************)

VARIABLES
    target,     \* per build: TARGET
    override,   \* per build: RUST_GNARK_GO_ENVS
    pc,         \* per build: where main stands
    manual,     \* per build: the local `manual` of detect_go_cross_env, once parsed
    consulted,  \* per build: whether the TARGET match of detect_go_cross_env ran
    go_envs_v,  \* per build: the vector detect_go_cross_env returned, once returned
    cc,         \* per build: what detect_cc returned, once returned
    pending,    \* per build: the wrapper create_apple_cc_wrapper is writing
    reads,      \* per build: what was read of the process environment
    stdout,     \* per build: the lines printed for cargo
    panic,      \* per build: the panic message, "" while none
    go_cmd,     \* per build: the `go build` command, once run
    artifact,   \* per build: how libgnark and libgnark.h got into OUT_DIR
    bindings,   \* per build: whether bindings.rs was written
    files       \* the wrapper scripts in OUT_DIR, by path

vars ==
    <<target, override, pc, manual, consulted, go_envs_v, cc, pending, reads,
      stdout, panic, go_cmd, artifact, bindings, files>>

NoFile == [exists |-> FALSE, data |-> "", exec |-> FALSE]

ScriptPaths == {script_path(OUT_DIR, sdk) : sdk \in {"iphoneos", "iphonesimulator"}}

\* The state of `procs` builds about to start at `start`
InitBuilds(procs, targets, overrides, start) ==
    /\ target \in [procs -> targets]
    /\ override \in [procs -> overrides]
    /\ pc = [p \in procs |-> start]
    /\ manual = [p \in procs |-> None]
    /\ consulted = [p \in procs |-> FALSE]
    /\ go_envs_v = [p \in procs |-> None]
    /\ cc = [p \in procs |-> None]
    /\ pending = [p \in procs |-> None]
    /\ reads = [p \in procs |-> NoReads]
    /\ stdout = [p \in procs |-> <<>>]
    /\ panic = [p \in procs |-> ""]
    /\ go_cmd = [p \in procs |-> None]
    /\ artifact = [p \in procs |-> "none"]
    /\ bindings = [p \in procs |-> FALSE]
    /\ files = [f \in ScriptPaths |-> NoFile]

\* One build, any TARGET, any RUST_GNARK_GO_ENVS
Builds == {1}

Init == InitBuilds(Builds, Targets, Overrides, "main")

(***************************************************************************)
(* main, step by step. Every step of build p: its guard is the position of *)
(* main, its outcome nondeterministic where the file system, the go        *)
(* toolchain or bindgen decides it.                                        *)
(***************************************************************************)

Panic(p, msg) ==
    /\ pc' = [pc EXCEPT ![p] = "aborted"]
    /\ panic' = [panic EXCEPT ![p] = msg]

\* lines 21-38, 54, 78-84: which of the three branches main takes
Main(p) ==
    /\ pc[p] = "main"
    /\ stdout' = [stdout EXCEPT ![p] = Append(@, "cargo:rerun-if-changed=go")]
    /\ \E prebuilt_exists \in BOOLEAN, go_exists \in BOOLEAN :
          IF prebuilt_exists
              THEN /\ pc' = [pc EXCEPT ![p] = "prebuilt"]
                   /\ panic' = panic
                   /\ reads' = [reads EXCEPT ![p].prebuilt_dir = Some(TRUE)]
          ELSE /\ reads' = [reads EXCEPT ![p].prebuilt_dir = Some(FALSE),
                                         ![p].go_dir = Some(go_exists)]
               /\ IF go_exists
                      THEN pc' = [pc EXCEPT ![p] = "resolve"] /\ panic' = panic
                  ELSE Panic(p, "Neither prebuilt/" \o target[p] \o " nor go/ directory found.")
    /\ UNCHANGED <<target, override, manual, consulted, go_envs_v, cc, pending,
                   go_cmd, artifact, bindings, files>>

\* lines 39-53: the prebuilt branch
Prebuilt(p) ==
    /\ pc[p] = "prebuilt"
    /\ \E lib_exists \in BOOLEAN, header_exists \in BOOLEAN, copied \in BOOLEAN :
          IF ~lib_exists
              THEN /\ Panic(p, "prebuilt/" \o target[p] \o "/" \o lib_name(target[p])
                                  \o " not found. Rebuild prebuilt libraries.")
                   /\ reads' = [reads EXCEPT ![p].prebuilt_lib = Some(FALSE)]
                   /\ artifact' = artifact
          ELSE /\ reads' = [reads EXCEPT ![p].prebuilt_lib = Some(TRUE),
                                         ![p].prebuilt_header = Some(header_exists)]
               /\ IF ~header_exists
                      THEN /\ Panic(p, "prebuilt/" \o target[p]
                                  \o "/libgnark.h not found. Rebuild prebuilt libraries.")
                           /\ artifact' = artifact
                  ELSE IF ~copied
                      THEN /\ Panic(p, "Failed to copy prebuilt lib")
                           /\ artifact' = artifact
                  ELSE /\ pc' = [pc EXCEPT ![p] = "bindgen"]
                       /\ panic' = panic
                       /\ artifact' = [artifact EXCEPT ![p] = "prebuilt"]
    /\ UNCHANGED <<target, override, manual, consulted, go_envs_v, cc, pending,
                   stdout, go_cmd, bindings, files>>

\* line 56: detect_go_cross_env, up to its return or to the wrapper it has
\* to write. The process environment is read by detect_cc alone.
DetectGoCrossEnv(p) ==
    /\ pc[p] = "resolve"
    /\ LET m == detect_go_cross_env_match(target[p], override[p])
       IN  /\ manual' = [manual EXCEPT ![p] = Some(m.manual)]
           /\ consulted' = [consulted EXCEPT ![p] = m.consulted]
           /\ IF m.returned.some
                  THEN /\ go_envs_v' = [go_envs_v EXCEPT ![p] = m.returned]
                       /\ pc' = [pc EXCEPT ![p] = "gobuild"]
                       /\ UNCHANGED <<cc, pending, reads, stdout>>
              ELSE \E e \in Envs :
                      LET d == detect_cc(target[p], e)
                      IN  /\ reads' = [reads EXCEPT ![p] =
                                 [@ EXCEPT !.home = d.reads.home, !.root = d.reads.root,
                                           !.host = d.reads.host, !.macos = d.reads.macos,
                                           !.exists = d.reads.exists]]
                          /\ stdout' = [stdout EXCEPT ![p] = @ \o d.warnings]
                          /\ pending' = [pending EXCEPT ![p] = d.wrapper]
                          /\ IF d.wrapper.some
                                 THEN /\ pc' = [pc EXCEPT ![p] = "wrapper_create"]
                                      /\ UNCHANGED <<cc, go_envs_v>>
                             ELSE /\ cc' = [cc EXCEPT ![p] = Some(d.cc)]
                                  /\ go_envs_v' = [go_envs_v EXCEPT ![p] =
                                         Some(go_envs(m.oa.v, d.cc))]
                                  /\ pc' = [pc EXCEPT ![p] = "gobuild"]
    /\ UNCHANGED <<target, override, panic, go_cmd, artifact, bindings, files>>

\* line 233, std::fs::write, first half: the file is created, or truncated
\* when it is there (its permission bits are then kept)
WrapperCreate(p) ==
    /\ pc[p] = "wrapper_create"
    /\ LET path == script_path(OUT_DIR, pending[p].v.sdk)
       IN  \E ok \in BOOLEAN :
              IF ok
                  THEN /\ files' = [files EXCEPT ![path] =
                                       [exists |-> TRUE, data |-> "", exec |-> @.exec]]
                       /\ pc' = [pc EXCEPT ![p] = "wrapper_write"]
                       /\ panic' = panic
              ELSE /\ Panic(p, "Failed to write CC wrapper " \o script_name(pending[p].v.sdk))
                   /\ files' = files
    /\ UNCHANGED <<target, override, manual, consulted, go_envs_v, cc, pending, reads,
                   stdout, go_cmd, artifact, bindings>>

\* what a write of `data` at offset 0 leaves of a file holding `old`
write_at_start(old, data) == data \o SubSeq(old, Len(data) + 1, Len(old))

\* line 233, std::fs::write, second half: the contents are written from offset 0
WrapperWrite(p) ==
    /\ pc[p] = "wrapper_write"
    /\ LET w    == pending[p].v
           path == script_path(OUT_DIR, w.sdk)
       IN  \E ok \in BOOLEAN :
              IF ok
                  THEN /\ files' = [files EXCEPT ![path].data =
                                       write_at_start(@, script_content(w.sdk, w.clang_target))]
                       /\ pc' = [pc EXCEPT ![p] = "wrapper_chmod"]
                       /\ panic' = panic
              ELSE /\ Panic(p, "Failed to write CC wrapper " \o script_name(w.sdk))
                   /\ files' = files
    /\ UNCHANGED <<target, override, manual, consulted, go_envs_v, cc, pending, reads,
                   stdout, go_cmd, artifact, bindings>>

\* lines 236-246 and 163-167: mode 0o755 is set (the build host is a unix,
\* as every host with xcrun is), the path is returned as CC and
\* detect_go_cross_env returns
WrapperChmod(p) ==
    /\ pc[p] = "wrapper_chmod"
    /\ LET w    == pending[p].v
           path == script_path(OUT_DIR, w.sdk)
       IN  \E ok \in BOOLEAN :
              IF ok
                  THEN /\ files' = [files EXCEPT ![path].exec = TRUE]
                       /\ cc' = [cc EXCEPT ![p] = Some(Some(path))]
                       /\ go_envs_v' = [go_envs_v EXCEPT ![p] =
                              Some(go_envs(go_os_arch(target[p]).v, Some(path)))]
                       /\ pc' = [pc EXCEPT ![p] = "gobuild"]
                       /\ panic' = panic
              ELSE /\ Panic(p, "Failed to chmod CC wrapper " \o script_name(w.sdk))
                   /\ UNCHANGED <<files, cc, go_envs_v>>
    /\ UNCHANGED <<target, override, manual, consulted, pending, reads,
                   stdout, go_cmd, artifact, bindings>>

\* Variant of GoBuild without the assert on the exit status (line 77); C10
\* tells the two apart.
GoBuildUnchecked(p) ==
    /\ pc[p] = "gobuild"
    /\ \E result \in {"not spawned", "exit 1", "exit 0"} :
          /\ go_cmd' = [go_cmd EXCEPT ![p] =
                 Some([buildmode |-> "-buildmode=" \o buildmode(target[p]),
                       dest |-> OUT_DIR \o "/" \o lib_name(target[p]),
                       envs |-> <<<<"CGO_ENABLED", "1">>>> \o go_envs_v[p].v,
                       status |-> result])]
          /\ IF result = "not spawned"
                 THEN /\ Panic(p, "Go build failed. Is Go installed?")
                      /\ artifact' = artifact
             ELSE /\ pc' = [pc EXCEPT ![p] = "bindgen"]
                  /\ panic' = panic
                  /\ artifact' = [artifact EXCEPT ![p] =
                         IF result = "exit 0" THEN "built" ELSE "none"]
    /\ UNCHANGED <<target, override, manual, consulted, go_envs_v, cc, pending, reads,
                   stdout, bindings, files>>

\* lines 58-77: `go build` with CGO_ENABLED=1 and the resolved variables;
\* status is what cmd.status() gave
GoBuild(p) ==
    /\ pc[p] = "gobuild"
    /\ \E result \in {"not spawned", "exit 1", "exit 0"} :
          /\ go_cmd' = [go_cmd EXCEPT ![p] =
                 Some([buildmode |-> "-buildmode=" \o buildmode(target[p]),
                       dest |-> OUT_DIR \o "/" \o lib_name(target[p]),
                       envs |-> <<<<"CGO_ENABLED", "1">>>> \o go_envs_v[p].v,
                       status |-> result])]
          /\ IF result = "not spawned"
                 THEN /\ Panic(p, "Go build failed. Is Go installed?")
                      /\ artifact' = artifact
             ELSE IF result = "exit 1"
                 THEN /\ Panic(p, "Go build failed with status: exit status: 1")
                      /\ artifact' = artifact
             ELSE /\ pc' = [pc EXCEPT ![p] = "bindgen"]
                  /\ panic' = panic
                  /\ artifact' = [artifact EXCEPT ![p] = "built"]
    /\ UNCHANGED <<target, override, manual, consulted, go_envs_v, cc, pending, reads,
                   stdout, bindings, files>>

\* lines 86-94: bindgen on OUT_DIR/libgnark.h, bindings.rs written
Bindgen(p) ==
    /\ pc[p] = "bindgen"
    /\ \E result \in {"no bindings", "not written", "written"} :
          IF result = "no bindings"
              THEN /\ Panic(p, "Failed to generate Rust bindings from libgnark.h")
                   /\ bindings' = bindings
          ELSE IF result = "not written"
              THEN /\ Panic(p, "Failed to write bindings.rs")
                   /\ bindings' = bindings
          ELSE /\ pc' = [pc EXCEPT ![p] = "link"]
               /\ panic' = panic
               /\ bindings' = [bindings EXCEPT ![p] = TRUE]
    /\ UNCHANGED <<target, override, manual, consulted, go_envs_v, cc, pending, reads,
                   stdout, go_cmd, artifact, files>>

\* lines 96-102: the link directives, and main returns
Link(p) ==
    /\ pc[p] = "link"
    /\ stdout' = [stdout EXCEPT ![p] =
           @ \o <<"cargo:rustc-link-search=native=" \o OUT_DIR, link_lib_gnark(target[p])>>
             \o link_platform_deps(target[p])]
    /\ pc' = [pc EXCEPT ![p] = "done"]
    /\ UNCHANGED <<target, override, manual, consulted, go_envs_v, cc, pending, reads,
                   panic, go_cmd, artifact, bindings, files>>

Next ==
    \E p \in Builds :
        \/ Main(p)
        \/ Prebuilt(p)
        \/ DetectGoCrossEnv(p)
        \/ WrapperCreate(p)
        \/ WrapperWrite(p)
        \/ WrapperChmod(p)
        \/ GoBuild(p)
        \/ Bindgen(p)
        \/ Link(p)

Spec == Init /\ [][Next]_vars

(***************************************************************************)
(* Two builds resolving in the same OUT_DIR, as when several targets are   *)
(* built in one workspace: each runs detect_go_cross_env with no override, *)
(* in its own process environment, and their file system steps interleave. *)
(***************************************************************************)

ConcBuilds == {1, 2}

\* The targets resolved side by side: the three that write a wrapper script,
\* those that read the process environment, and targets that read nothing.
ConcTargets ==
    {"aarch64-apple-ios", "aarch64-apple-ios-sim", "x86_64-apple-ios",
     "aarch64-linux-android", "armv7-linux-androideabi",
     "aarch64-unknown-linux-gnu", "x86_64-unknown-linux-gnu", "x86_64-unknown-linux-musl"}

InitConc == InitBuilds(ConcBuilds, ConcTargets, {""}, "resolve")

NextConc ==
    \E p \in ConcBuilds :
        \/ DetectGoCrossEnv(p)
        \/ WrapperCreate(p)
        \/ WrapperWrite(p)
        \/ WrapperChmod(p)

SpecConc == InitConc /\ [][NextConc]_vars

(***************************************************************************)
(* What the claims are stated with                                         *)
(***************************************************************************)

\* the character of s at position i
CharAt(s, i) == SubSeq(s, i, i)

\* The entries of a RUST_GNARK_GO_ENVS string, by position: an entry starts
\* at 1 or right after a ';' and ends before the next ';' or with the string.
EntryStarts(s) == {1} \cup {i + 1 : i \in {j \in 1..Len(s) : CharAt(s, j) = ";"}}

EntryEnd(s, a) ==
    LET semis == {i \in a..Len(s) : CharAt(s, i) = ";"}
    IN  IF semis = {} THEN Len(s)
        ELSE (CHOOSE i \in semis : \A j \in semis : i <= j) - 1

\* the positions of '=' in the entry that starts at a
EntryEquals(s, a) == {i \in a..EntryEnd(s, a) : CharAt(s, i) = "="}

\* the starts of the entries that hold a '=': the well-formed pairs
PairStarts(s) == {a \in EntryStarts(s) : EntryEquals(s, a) # {}}

\* The mapping the override string denotes: for the k-th entry with a '=',
\* the text before its first '=' and the text after it.
ExpectedPairs(s) ==
    IF s = "" THEN <<>>
    ELSE [k \in 1..Cardinality(PairStarts(s)) |->
            LET a  == CHOOSE x \in PairStarts(s) :
                          Cardinality({y \in PairStarts(s) : y < x}) = k - 1
                eq == CHOOSE i \in EntryEquals(s, a) : \A j \in EntryEquals(s, a) : i <= j
            IN  <<SubSeq(s, a, eq - 1), SubSeq(s, eq + 1, EntryEnd(s, a))>>]

\* detect_go_cross_env has returned in build p
Returned(p) == go_envs_v[p].some

\* the warnings among the lines build p printed
Warnings(p) == SelectSeq(stdout[p], LAMBDA l : starts_with(l, "cargo:warning="))

\* no wrapper script was created or written
NoScriptTouched == \A f \in ScriptPaths : files[f] = NoFile

(***************************************************************************)
(* C2: parse_go_envs never fails. "" gives the empty vector; any other     *)
(* string gives, in input order, one (key, value) for each ';'-delimited   *)
(* entry holding a '=', split at its first '='; entries without '=' are    *)
(* dropped with no panic and no diagnostic.                                *)
(***************************************************************************)
C2_ParseGoEnvs ==
    \A p \in DOMAIN pc :
        \* detect_go_cross_env has parsed the override
        manual[p].some =>
            /\ manual[p].v = ExpectedPairs(override[p])
            /\ override[p] = "" => manual[p].v = <<>>
            \* nothing was printed but the rerun directive and NDK warnings
            /\ \A i \in 1..Len(stdout[p]) :
                   \/ stdout[p][i] = "cargo:rerun-if-changed=go"
                   \/ starts_with(stdout[p][i], "cargo:warning=Android NDK clang not found")
                   \/ starts_with(stdout[p][i], "cargo:rustc-link-")
            \* and the parse did not panic: the build stands past it
            /\ pc[p] \in {"gobuild", "wrapper_create", "wrapper_write", "wrapper_chmod"}
                  => panic[p] = ""
            /\ pc[p] = "aborted" => ~starts_with(panic[p], "prebuilt/") /\ panic[p] # ""

\* an entry without '=' was dropped and the kept one was split at its first '='
C2_Witness ==
    \E p \in DOMAIN pc :
        /\ override[p] = "K;=="
        /\ manual[p] = Some(<<<<"", "=">>>>)
        /\ pc[p] = "gobuild"

(***************************************************************************)
(* C1: when RUST_GNARK_GO_ENVS holds at least one well-formed KEY=VALUE    *)
(* pair, detect_go_cross_env returns exactly the parsed pairs, in order,   *)
(* whatever TARGET is: the TARGET match and detect_cc do not run, no       *)
(* GOOS/GOARCH/CC is added, nothing of the environment is read and no      *)
(* wrapper script is written.                                              *)
(***************************************************************************)
C1_OverrideVerbatim ==
    \A p \in DOMAIN pc :
        (manual[p].some /\ PairStarts(override[p]) # {} /\ override[p] # "") =>
            /\ go_envs_v[p] = Some(ExpectedPairs(override[p]))
            /\ ~consulted[p]
            /\ cc[p] = None
            /\ pending[p] = None
            /\ reads[p].home = None /\ reads[p].root = None /\ reads[p].host = None
            /\ reads[p].macos = None /\ reads[p].exists = None
            /\ Warnings(p) = <<>>
            /\ NoScriptTouched
            /\ pc[p] \notin {"wrapper_create", "wrapper_write", "wrapper_chmod"}

\* an override with two entries, for a target that would otherwise get a
\* wrapper script, reached `go build` with the override alone
C1_Witness ==
    \E p \in DOMAIN pc :
        /\ target[p] = "aarch64-apple-ios"
        /\ override[p] = "K=;="
        /\ go_cmd[p].some
        /\ go_cmd[p].v.envs = <<<<"CGO_ENABLED", "1">>, <<"K", "">>, <<"", "">>>>

(***************************************************************************)
(* C3: c-shared, a .so artifact and dynamic linking are chosen together,   *)
(* exactly for the identifiers holding "linux-android", and c-archive, .a  *)
(* and static linking for all others; and the shared mode is chosen iff    *)
(* the TARGET match of detect_go_cross_env classifies the target as        *)
(* android.                                                                *)
(***************************************************************************)
C3_SharedIffAndroidFamily ==
    \A p \in DOMAIN pc :
        pc[p] = "done" =>
            LET shared  == buildmode(target[p]) = "c-shared"
                so      == lib_name(target[p]) = "libgnark.so"
                dylib   == \E i \in 1..Len(stdout[p]) :
                               stdout[p][i] = "cargo:rustc-link-lib=dylib=gnark"
                static  == \E i \in 1..Len(stdout[p]) :
                               stdout[p][i] = "cargo:rustc-link-lib=static=gnark"
                android == go_os_arch(target[p]).some /\ go_os_arch(target[p]).v[1] = "android"
            IN  /\ shared <=> contains(target[p], "linux-android")
                /\ shared <=> so
                /\ shared <=> dylib
                /\ ~shared <=> static
                /\ ~shared => buildmode(target[p]) = "c-archive" /\ lib_name(target[p]) = "libgnark.a"
                /\ shared <=> android

(***************************************************************************)
(* C4: with an empty override, GOOS is given by the first of the tests     *)
(* "apple-ios" -> ios, "apple-darwin" -> darwin, "linux-android" ->        *)
(* android, "linux-gnu" -> linux that the identifier passes (none: nothing *)
(* is set), and GOARCH is arm64 when the identifier begins with "aarch64"  *)
(* and amd64 otherwise.                                                    *)
(***************************************************************************)
C4_FirstMatch ==
    \A p \in DOMAIN pc :
        (Returned(p) /\ manual[p] = Some(<<>>)) =>
            LET t      == target[p]
                ios    == contains(t, "apple-ios")
                darwin == contains(t, "apple-darwin")
                droid  == contains(t, "linux-android")
                gnu    == contains(t, "linux-gnu")
                envs   == go_envs_v[p].v
            IN  /\ consulted[p]
                /\ ~(ios \/ darwin \/ droid \/ gnu) <=> envs = <<>>
                /\ envs # <<>> =>
                      /\ envs[1][1] = "GOOS" /\ envs[2][1] = "GOARCH"
                      /\ envs[1][2] = "ios" <=> ios
                      /\ envs[1][2] = "darwin" <=> (~ios /\ darwin)
                      /\ envs[1][2] = "android" <=> (~ios /\ ~darwin /\ droid)
                      /\ envs[1][2] = "linux" <=> (~ios /\ ~darwin /\ ~droid /\ gnu)
                      /\ envs[2][2] = "arm64" <=> SubSeq(t, 1, 7) = "aarch64"
                      /\ envs[2][2] = "amd64" <=> SubSeq(t, 1, 7) # "aarch64"

\* an identifier holding two markers, the later rule's first, took the earlier rule
C4_Witness ==
    \E p \in DOMAIN pc :
        /\ target[p] = "aarch64-apple-darwin-apple-ios"
        /\ override[p] = ""
        /\ Returned(p)
        /\ go_envs_v[p].v = <<<<"GOOS", "ios">>, <<"GOARCH", "arm64">>>>

(***************************************************************************)
(* C5: with an empty override, the returned environment is empty for a     *)
(* target of no family (such as x86_64-unknown-linux-musl); otherwise it   *)
(* is GOOS, then GOARCH, then CC exactly when detect_cc returned a path,   *)
(* and nothing else.                                                       *)
(***************************************************************************)
C5_AssembledEnv ==
    \A p \in DOMAIN pc :
        (Returned(p) /\ manual[p] = Some(<<>>)) =>
            LET envs == go_envs_v[p].v
                keys == [i \in 1..Len(envs) |-> envs[i][1]]
            IN  IF ~go_os_arch(target[p]).some
                    THEN envs = <<>> /\ cc[p] = None
                ELSE /\ cc[p].some
                     /\ IF cc[p].v.some
                            THEN keys = <<"GOOS", "GOARCH", "CC">> /\ envs[3][2] = cc[p].v.v
                        ELSE keys = <<"GOOS", "GOARCH">>
                /\ (target[p] = "x86_64-unknown-linux-musl" => envs = <<>>)

\* an android build whose NDK compiler was found carries the three variables
C5_Witness ==
    \E p \in DOMAIN pc :
        /\ target[p] = "aarch64-linux-android"
        /\ manual[p] = Some(<<>>)
        /\ Returned(p)
        /\ go_envs_v[p].v =
              <<<<"GOOS", "android">>, <<"GOARCH", "arm64">>,
                <<"CC", "/ndkB/toolchains/llvm/prebuilt/linux-x86_64/bin/aarch64-linux-android21-clang">>>>

(***************************************************************************)
(* The link directives of a finished build                                 *)
(***************************************************************************)

\* a cargo:rustc-link- directive was printed
LinkEmitted(p) ==
    \E i \in 1..Len(stdout[p]) : starts_with(stdout[p][i], "cargo:rustc-link-")

\* the directives printed after the one that links libgnark itself
LinkDeps(p) ==
    LET i == CHOOSE j \in 1..Len(stdout[p]) :
                 stdout[p][j] \in {"cargo:rustc-link-lib=dylib=gnark",
                                   "cargo:rustc-link-lib=static=gnark"}
    IN  SubSeq(stdout[p], i + 1, Len(stdout[p]))

AppleDeps ==
    <<"cargo:rustc-link-lib=framework=CoreFoundation",
      "cargo:rustc-link-lib=framework=Security", "cargo:rustc-link-lib=resolv">>

AndroidDeps == <<"cargo:rustc-link-lib=c", "cargo:rustc-link-lib=log">>

UnixDeps == <<"cargo:rustc-link-lib=pthread", "cargo:rustc-link-lib=resolv">>

\* the GOOS the TARGET match of detect_go_cross_env gives, "unknown" for none
Family(t) == IF go_os_arch(t).some THEN go_os_arch(t).v[1] ELSE "unknown"

(***************************************************************************)
(* C6, as claimed: the link directives are a function of the family the    *)
(* TARGET match assigns: ios and darwin -> (CoreFoundation, Security,      *)
(* resolv), android -> (c, log), linux and unknown -> (pthread, resolv).   *)
(***************************************************************************)
C6_DepsByFamily ==
    \A p \in DOMAIN pc :
        pc[p] = "done" =>
            LinkDeps(p) = IF Family(target[p]) \in {"ios", "darwin"} THEN AppleDeps
                          ELSE IF Family(target[p]) = "android" THEN AndroidDeps
                          ELSE UnixDeps

(***************************************************************************)
(* C6, amended: the link directives are a total function of the target     *)
(* identifier, by tests of their own: (CoreFoundation, Security, resolv)   *)
(* exactly when it holds "apple", (c, log) exactly when it holds "android" *)
(* and not "apple", (pthread, resolv) exactly when it holds neither. Every *)
(* ios or darwin target gets the first, and a target of another family     *)
(* gets its family's directives unless the identifier holds "apple" (or,   *)
(* for linux and unknown, "android").                                      *)
(***************************************************************************)
C6_DepsByIdentifier ==
    \A p \in DOMAIN pc :
        pc[p] = "done" =>
            LET t     == target[p]
                apple == contains(t, "apple")
                droid == contains(t, "android")
            IN  /\ LinkDeps(p) = AppleDeps <=> apple
                /\ LinkDeps(p) = AndroidDeps <=> (~apple /\ droid)
                /\ LinkDeps(p) = UnixDeps <=> (~apple /\ ~droid)
                /\ Family(t) \in {"ios", "darwin"} => LinkDeps(p) = AppleDeps
                /\ (Family(t) = "android" /\ ~apple) => LinkDeps(p) = AndroidDeps
                /\ (Family(t) \in {"linux", "unknown"} /\ ~apple /\ ~droid)
                      => LinkDeps(p) = UnixDeps

\* a target of no family that holds "apple" was given the Apple frameworks
C6_Witness ==
    \E p \in DOMAIN pc :
        /\ pc[p] = "done"
        /\ target[p] = "aarch64-apple-tvos"
        /\ Family(target[p]) = "unknown"
        /\ LinkDeps(p) = AppleDeps

(***************************************************************************)
(* Android builds whose detect_cc returned None                            *)
(***************************************************************************)

\* build p is of the android family, resolved with no override, and
\* detect_cc found no NDK compiler for it
NdkCompilerNotFound(p) ==
    /\ Family(target[p]) = "android"
    /\ manual[p] = Some(<<>>)
    /\ cc[p] = Some(None)

\* the recipe of p still names android, and `go build` is run with it
StillBuildsForAndroid(p) ==
    /\ go_envs_v[p] = Some(<<<<"GOOS", "android">>,
                             <<"GOARCH", IF SubSeq(target[p], 1, 7) = "aarch64"
                                            THEN "arm64" ELSE "amd64">>>>)
    /\ pc[p] = "gobuild" \/ go_cmd[p].some
    /\ pc[p] = "gobuild" => panic[p] = ""
    /\ go_cmd[p].some =>
          go_cmd[p].v.envs = <<<<"CGO_ENABLED", "1">>>> \o go_envs_v[p].v

(***************************************************************************)
(* C7, as claimed: whenever the NDK compiler of an android target is not   *)
(* found (no NDK variable set, or no file at the computed path), detect_cc *)
(* returns None, a warning is printed, and the build goes on with          *)
(* GOOS=android and GOARCH to `go build`.                                  *)
(***************************************************************************)
C7_WarnsWheneverNotFound ==
    \A p \in DOMAIN pc :
        NdkCompilerNotFound(p) => (Warnings(p) # <<>> /\ StillBuildsForAndroid(p))

(***************************************************************************)
(* C7, amended: whenever the NDK compiler of an android target is not      *)
(* found, detect_cc returns None and the build goes on with GOOS=android   *)
(* and GOARCH to `go build`; a warning is printed exactly when an NDK      *)
(* variable is set, the target is one of the two triples with a known      *)
(* compiler name and no file is at the computed path. When neither         *)
(* variable is set, nothing is printed.                                    *)
(***************************************************************************)
C7_WarnsOnlyOnMissingFile ==
    \A p \in DOMAIN pc :
        NdkCompilerNotFound(p) =>
            /\ StillBuildsForAndroid(p)
            /\ Warnings(p) # <<>> <=> reads[p].exists = Some(FALSE)
            /\ Len(Warnings(p)) <= 1
            /\ reads[p].exists.some <=>
                  /\ target[p] \in {"aarch64-linux-android", "x86_64-linux-android"}
                  /\ (reads[p].home.some /\ reads[p].home.v.some)
                        \/ (reads[p].root.some /\ reads[p].root.v.some)
            /\ (reads[p].home = Some(None) /\ reads[p].root = Some(None))
                  => Warnings(p) = <<>>

\* an android build with neither NDK variable set ran `go build` unwarned
C7_Witness ==
    \E p \in DOMAIN pc :
        /\ NdkCompilerNotFound(p)
        /\ target[p] = "x86_64-linux-android"
        /\ reads[p].home = Some(None) /\ reads[p].root = Some(None)
        /\ go_cmd[p].some
        /\ Warnings(p) = <<>>

(***************************************************************************)
(* C10: bindgen and the link directives come only after the library is in  *)
(* OUT_DIR (both prebuilt files copied, or `go build` exited with          *)
(* success). When prebuilt/<target> exists, nothing is resolved (the       *)
(* override is not read, no wrapper is written, go is not run) and a       *)
(* missing prebuilt library or header aborts the build. A failed `go       *)
(* build`, or the absence of both prebuilt/<target> and go/, aborts the    *)
(* build with no bindings and no link directive.                           *)
(***************************************************************************)
C10_Order ==
    \A p \in DOMAIN pc :
        /\ (bindings[p] \/ LinkEmitted(p) \/ pc[p] \in {"bindgen", "link", "done"})
              => artifact[p] \in {"prebuilt", "built"}
        /\ LinkEmitted(p) => bindings[p]
        /\ artifact[p] = "built" => (go_cmd[p].some /\ go_cmd[p].v.status = "exit 0")
        /\ artifact[p] = "prebuilt" =>
              (reads[p].prebuilt_lib = Some(TRUE) /\ reads[p].prebuilt_header = Some(TRUE))
        /\ reads[p].prebuilt_dir = Some(TRUE) =>
              /\ manual[p] = None /\ ~consulted[p] /\ go_envs_v[p] = None
              /\ cc[p] = None /\ pending[p] = None
              /\ NoScriptTouched
              /\ go_cmd[p] = None
              /\ artifact[p] # "built"
        /\ (reads[p].prebuilt_lib = Some(FALSE) \/ reads[p].prebuilt_header = Some(FALSE))
              => (pc[p] = "aborted" /\ artifact[p] = "none")
        /\ (go_cmd[p].some /\ go_cmd[p].v.status # "exit 0")
              => (pc[p] = "aborted" /\ artifact[p] = "none")
        /\ (reads[p].prebuilt_dir = Some(FALSE) /\ reads[p].go_dir = Some(FALSE))
              => (pc[p] = "aborted" /\ artifact[p] = "none" /\ go_cmd[p] = None)
        /\ pc[p] = "aborted" => (panic[p] # "" /\ ~LinkEmitted(p))
        /\ (pc[p] = "aborted" /\ artifact[p] = "none") => ~bindings[p]

\* a build finished from prebuilt files, with nothing resolved
C10_Witness ==
    \E p \in DOMAIN pc :
        /\ pc[p] = "done"
        /\ target[p] = "aarch64-apple-ios"
        /\ artifact[p] = "prebuilt"
        /\ bindings[p] /\ LinkEmitted(p)
        /\ manual[p] = None /\ go_cmd[p] = None

(***************************************************************************)
(* C8: when different iOS variants are resolved in the same OUT_DIR, one   *)
(* after the other or at once, their wrapper scripts do not clobber one    *)
(* another: once every resolution has returned, the script at the path a   *)
(* resolution returned as CC exists, is executable and invokes that        *)
(* resolution's own SDK and clang target.                                  *)
(***************************************************************************)
C8_WrappersNeverClobbered ==
    ((\A p \in DOMAIN pc : Returned(p))
        /\ \A p, q \in DOMAIN pc : p # q => target[p] # target[q])
    => \A p \in DOMAIN pc :
          pending[p].some =>
              LET w == pending[p].v
                  f == files[cc[p].v.v]
              IN  /\ f.exists
                  /\ f.exec
                  /\ contains(f.data, " -sdk " \o w.sdk \o " ")
                  /\ contains(f.data, " -target " \o w.clang_target \o " ")

(***************************************************************************)
(* C9, as claimed: with an empty override, two runs for the same target    *)
(* give the same classification, the same compiler resolution and the same *)
(* recipe, whatever the rest of the process environment is.                *)
(***************************************************************************)
C9_FunctionOfTargetAlone ==
    \A p, q \in DOMAIN pc :
        (target[p] = target[q] /\ Returned(p) /\ Returned(q)
            /\ manual[p] = Some(<<>>) /\ manual[q] = Some(<<>>))
        => (go_envs_v[p] = go_envs_v[q] /\ cc[p] = cc[q])

(***************************************************************************)
(* C9, amended: with an empty override, two runs for the same target in    *)
(* the same OUT_DIR give the same classification (GOOS, GOARCH). They give *)
(* the same compiler resolution and recipe, whatever the environment, for  *)
(* every target but those holding "linux-android" and                      *)
(* aarch64-unknown-linux-gnu; for these they give the same whenever the    *)
(* runs read the same of the environment: ANDROID_NDK_HOME,                *)
(* ANDROID_NDK_ROOT, the OS of the build host and whether the NDK compiler *)
(* exists, and HOST.                                                       *)
(***************************************************************************)
C9_FunctionOfTargetAndReads ==
    \A p, q \in DOMAIN pc :
        (target[p] = target[q] /\ Returned(p) /\ Returned(q)
            /\ manual[p] = Some(<<>>) /\ manual[q] = Some(<<>>))
        => /\ Len(go_envs_v[p].v) >= 2 <=> Len(go_envs_v[q].v) >= 2
           /\ Len(go_envs_v[p].v) >= 2 =>
                 SubSeq(go_envs_v[p].v, 1, 2) = SubSeq(go_envs_v[q].v, 1, 2)
           /\ reads[p] = reads[q] =>
                 (go_envs_v[p] = go_envs_v[q] /\ cc[p] = cc[q] /\ stdout[p] = stdout[q])
           /\ (~contains(target[p], "linux-android")
                  /\ target[p] # "aarch64-unknown-linux-gnu")
                 => (reads[p] = NoReads /\ go_envs_v[p] = go_envs_v[q] /\ cc[p] = cc[q])

\* two android runs that read the same environment resolved the same compiler
C9_Witness ==
    \E p, q \in DOMAIN pc :
        /\ p # q
        /\ target[p] = "aarch64-linux-android" /\ target[q] = target[p]
        /\ Returned(p) /\ Returned(q)
        /\ reads[p] = reads[q]
        /\ reads[p].exists = Some(TRUE)
        /\ cc[p] = cc[q] /\ cc[p].v.some
        /\ Len(go_envs_v[p].v) = 3

====
